---------------------------- MODULE Spec2Model ----------------------------
(***************************************************************************)
(* A model of the reconciliation engine of kurthuff/ag_res:                *)
(*   - the Region Reconciler     scripts/aci_reallocate_pixels.py          *)
(*                               (reallocate_acres)                        *)
(*   - the cascading top-up      scripts/label_area_deltas.py              *)
(*   - the shares                scripts/aci_muni_proportion.py and        *)
(*                               scripts/aci_biomass_per_pixel.py          *)
(*   - the Sub-Region Distributor scripts/aci_reallocate_pixels.py         *)
(*                               (distribute_back_to_municipalities)       *)
(*   - the Pixel Materializer    scripts/raster_build.py                   *)
(* Each script is a program of its own that reads tables from disk; a      *)
(* behaviour of the model is a run of one of them (the variable stage),    *)
(* on one region (the loops over regions handle them one after the other   *)
(* on private copies of their rows).                                       *)
(* Acreages are floating point in the source; the model computes with      *)
(* exact integers and exact fractions, so "equal" below means equal in     *)
(* exact arithmetic (the source's floating tolerance is not modelled).     *)
(***************************************************************************)
EXTENDS Integers, Sequences, FiniteSets, TLC

(***************************************************************************)
(* Bounds of the model.                                                    *)
(***************************************************************************)
MaxAci == 3
MaxMasc == 2
MaxPix == 2
MaxRows == 3
MaxRowAcres == 2
MaxNew == 3
NCells == 3

(***************************************************************************)
(* Generic helpers.                                                        *)
(***************************************************************************)
Min(a, b) == IF a <= b THEN a ELSE b
Max(a, b) == IF a >= b THEN a ELSE b

RECURSIVE SumOver(_, _)
SumOver(f, S) ==
    IF S = {} THEN 0
    ELSE LET x == CHOOSE y \in S : TRUE IN f[x] + SumOver(f, S \ {x})

SeqRange(s) == {s[i] : i \in 1..Len(s)}

\* The subsequence of s whose elements are in S (order of s kept).
RECURSIVE Restrict(_, _)
Restrict(s, S) ==
    IF s = <<>> THEN <<>>
    ELSE IF Head(s) \in S THEN <<Head(s)>> \o Restrict(Tail(s), S)
         ELSE Restrict(Tail(s), S)

\* All orderings of the finite set S.
Perms(S) ==
    {p \in [1..Cardinality(S) -> S] : \A i, j \in 1..Cardinality(S) : i # j => p[i] # p[j]}

(***************************************************************************)
(* Category labels.  The merged RM x Label table is the result of an outer *)
(* merge on (rm, Label), which leaves the rows in lexicographic key order: *)
(* that is the row (index) order of every region slice.                    *)
(***************************************************************************)
LabelOrder == <<"Canola/rapeseed", "Other crops", "Pasture/forages", "Wheat">>
Labels == SeqRange(LabelOrder)

\* The region of the worked example of the design document.
ExampleOrder == <<"A", "B", "C">>

VARIABLES
    stage,        \* which script the behaviour is a run of
    pc,           \* position inside that script
    order,        \* the region's rows in index order (a sequence of labels)
    rm_in,        \* reallocate_acres: the region's rows as passed in
    rm_df,        \* reallocate_acres: rm_df, the working copy of the rows
    missing,      \* reallocate_acres: index list of `missing`
    surplus,      \* reallocate_acres: index list of `surplus` after sort_values
    surplus_diff, \* reallocate_acres: surplus["acres_diff"]
    mi,           \* position of the outer loop (for idx in missing)
    si,           \* position of the inner loop (for jdx in surplus)
    target_add,   \* reallocate_acres: target_add
    last_take,    \* the amount moved by the last transfer (0 before any)
    sub,          \* label_area_deltas: sub, the region's slice of the RM x Label table
    sub_in,       \* label_area_deltas: the slice before the top-up
    recipients_idx, \* label_area_deltas: recipients_idx
    ri,           \* position of the loop over recipients_idx
    need,         \* label_area_deltas: need
    last_give,    \* label_area_deltas: what the last call of take() returned
    muni_rows,    \* the MUNI x Label rows of aci_reallocated_with_pct / aci_masc_merged
    masc_group,   \* label_area_deltas: masc_group of the region (Label -> acres)
    aci_df,       \* distribute_back_to_municipalities: aci_df, its rows in order
    reallocated_df, \* distribute_back_to_municipalities: Label -> acres_aci of the region
    final,        \* distribute_back_to_municipalities: the table returned
    src,          \* raster_build: band 1 of the source raster (cell -> code)
    geoms,        \* raster_build: the geometries of gdf_muni, in its order
    targets,      \* raster_build: df_muni of each municipality (its rows in order)
    dst_codes,    \* raster_build: band 1 of dst_codes
    dst_biomass,  \* raster_build: band 1 of dst_biomass
    logs,         \* process_by_municipality: logs
    mu,           \* position of the loop over gdf_muni
    band1,        \* assign_within_muni: band1 (the window's codes)
    band2,        \* assign_within_muni: band2 (the window's values)
    assigned_mask, \* assign_within_muni: assigned_mask, as the set of its cells
    assigned_log, \* assign_within_muni: assigned_log
    row_i,        \* position of the loop of Rule 2 over df_muni
    write_count,  \* how many times each output cell has been written by a window
    changed_by    \* the municipalities whose pass changed the content of each output cell

reallocVars == <<rm_in, rm_df, missing, surplus, surplus_diff, mi, si, target_add, last_take>>
topupVars == <<sub, sub_in, recipients_idx, ri, need, last_give>>
shareVars == <<muni_rows, masc_group>>
distVars == <<aci_df, reallocated_df, final>>
rasterVars == <<src, geoms, targets, dst_codes, dst_biomass, logs, mu, band1, band2,
                assigned_mask, assigned_log, row_i, write_count, changed_by>>
vars == <<stage, pc, order, reallocVars, topupVars, shareVars, distVars, rasterVars>>

\* The values of the variables of the stages a behaviour is not a run of.
IdleRealloc ==
    /\ rm_in = <<>> /\ rm_df = <<>> /\ missing = <<>> /\ surplus = <<>>
    /\ surplus_diff = <<>> /\ mi = 0 /\ si = 0 /\ target_add = 0 /\ last_take = 0

IdleTopup ==
    /\ sub = <<>> /\ sub_in = <<>> /\ recipients_idx = <<>> /\ ri = 0 /\ need = 0
    /\ last_give = 0

IdleShare == muni_rows = <<>> /\ masc_group = <<>>

IdleDist == aci_df = <<>> /\ reallocated_df = <<>> /\ final = <<>>

IdleRaster ==
    /\ src = <<>> /\ geoms = <<>> /\ targets = <<>> /\ dst_codes = <<>>
    /\ dst_biomass = <<>> /\ logs = <<>> /\ mu = 0 /\ band1 = <<>> /\ band2 = <<>>
    /\ assigned_mask = {} /\ assigned_log = <<>> /\ row_i = 0 /\ write_count = <<>>
    /\ changed_by = <<>>

(***************************************************************************)
(* Region Reconciler: reallocate_acres, one region.                        *)
(***************************************************************************)
\* preprocess_data: a merged row.  acres_diff is computed from the two
\* acreages (line 50); pixel_count and hectares are the sums of the
\* sub-region rows, carried here in the units in which they equal acres_aci
\* on input (aci_prepare derives all three from one pixel count).
MergedRow(aci, masc) ==
    [acres_aci |-> aci, acres_masc |-> masc, acres_diff |-> aci - masc,
     pixel_count |-> aci, hectares |-> aci]

\* Case 1 left out.
KeptRow(r) == r

\* Case 1 with acres_aci alone set to zero.
ZeroedAcresOnly(r) ==
    IF r.acres_aci > 0 /\ r.acres_masc = 0 THEN [r EXCEPT !.acres_aci = 0] ELSE r

\* Case 1 (lines 62-63).
ZeroedRow(r) ==
    IF r.acres_aci > 0 /\ r.acres_masc = 0
    THEN [r EXCEPT !.acres_aci = 0, !.pixel_count = 0, !.hectares = 0]
    ELSE r

Case1(df) == [l \in DOMAIN df |-> ZeroedRow(df[l])]

\* Line 66 and line 67, as sets of row labels.
MissingSet(df) == {l \in DOMAIN df : df[l].acres_aci = 0 /\ df[l].acres_masc > 0}
SurplusSet(df) == {l \in DOMAIN df : df[l].acres_aci > df[l].acres_masc}

\* Line 71 left out: the donors in any order.
UnsortedSurplus(df) == Perms(SurplusSet(df))

\* Line 71: sort_values("acres_diff", ascending=False).  The order of rows
\* with equal acres_diff is left open (the default sort is not stable).
SortedSurplus(df) ==
    {p \in Perms(SurplusSet(df)) :
        \A i, j \in DOMAIN p : i < j => df[p[i]].acres_diff >= df[p[j]].acres_diff}

\* Line 83 without the cap at what the recipient still needs.
TakeAllAvailable(available, target) == available

\* Line 83 without the cap at what the donor has left.
TakeWholeTarget(available, target) == target

\* Line 83.
Take(available, target) == Min(available, target)

\* Line 89.
RecomputeDiff(df) ==
    [l \in DOMAIN df |-> [df[l] EXCEPT !.acres_diff = df[l].acres_aci - df[l].acres_masc]]

InitRealloc ==
    /\ stage = "realloc"
    /\ pc = "start"
    /\ \/ /\ order = LabelOrder
          /\ rm_in \in [Labels -> {MergedRow(a, m) : a \in 0..MaxAci, m \in 0..MaxMasc}]
       \/ /\ order = ExampleOrder
          /\ rm_in = [l \in SeqRange(ExampleOrder) |->
                        CASE l = "A" -> MergedRow(100, 0)
                          [] l = "B" -> MergedRow(0, 40)
                          [] l = "C" -> MergedRow(80, 60)]
    /\ rm_df = rm_in
    /\ missing = <<>>
    /\ surplus = <<>>
    /\ surplus_diff = <<>>
    /\ mi = 0
    /\ si = 0
    /\ target_add = 0
    /\ last_take = 0
    /\ IdleTopup /\ IdleShare /\ IdleDist /\ IdleRaster

\* Lines 61-73: the zeroing pass, the two selections, the test of line 69,
\* the sort and the entry into the first iteration of the outer loop.
Zeroing ==
    /\ stage = "realloc" /\ pc = "start"
    /\ LET df == Case1(rm_df)
           ms == Restrict(order, MissingSet(df))
       IN /\ rm_df' = df
          /\ missing' = ms
          /\ \E p \in SortedSurplus(df) :
                /\ surplus' = p
                /\ surplus_diff' = [l \in SeqRange(p) |-> df[l].acres_diff]
          /\ IF ms # <<>> /\ SurplusSet(df) # {}
             THEN /\ pc' = "transfer"
                  /\ mi' = 1
                  /\ si' = 1
                  /\ target_add' = df[ms[1]].acres_masc
             ELSE /\ pc' = "done"
                  /\ UNCHANGED <<mi, si, target_add>>
    /\ UNCHANGED <<stage, order, rm_in, last_take>>
    /\ UNCHANGED <<topupVars, shareVars, distVars, rasterVars>>

\* Lines 76-87, one iteration of the inner loop that moves acreage.
Transfer ==
    /\ stage = "realloc" /\ pc = "transfer"
    /\ mi <= Len(missing) /\ si <= Len(surplus)
    /\ target_add > 0
    /\ LET idx == missing[mi]
           jdx == surplus[si]
           available == surplus_diff[jdx]
           take == Take(available, target_add)
       IN /\ available > 0
          /\ rm_df' = [rm_df EXCEPT ![jdx].acres_aci = @ - take,
                                    ![idx].acres_aci = @ + take]
          /\ target_add' = target_add - take
          /\ surplus_diff' = [surplus_diff EXCEPT ![jdx] = @ - take]
          /\ last_take' = take
    /\ si' = si + 1
    /\ UNCHANGED <<stage, pc, order, rm_in, missing, surplus, mi>>
    /\ UNCHANGED <<topupVars, shareVars, distVars, rasterVars>>

\* Lines 79-81: a donor with nothing left is passed over.
SkipDonor ==
    /\ stage = "realloc" /\ pc = "transfer"
    /\ mi <= Len(missing) /\ si <= Len(surplus)
    /\ target_add > 0
    /\ surplus_diff[surplus[si]] <= 0
    /\ si' = si + 1
    /\ UNCHANGED <<stage, pc, order, rm_in, rm_df, missing, surplus, surplus_diff, mi,
                   target_add, last_take,
                   topupVars, shareVars, distVars, rasterVars>>

\* Lines 73-78: the inner loop ends (break, or the donor list is used up)
\* and the outer loop goes to its next row.
NextMissing ==
    /\ stage = "realloc" /\ pc = "transfer"
    /\ mi < Len(missing)
    /\ target_add <= 0 \/ si > Len(surplus)
    /\ mi' = mi + 1
    /\ si' = 1
    /\ target_add' = rm_df[missing[mi + 1]].acres_masc
    /\ UNCHANGED <<stage, pc, order, rm_in, rm_df, missing, surplus, surplus_diff, last_take,
                   topupVars, shareVars, distVars, rasterVars>>

\* Lines 89-91: the outer loop is over; acres_diff is recomputed.
FinishRegion ==
    /\ stage = "realloc" /\ pc = "transfer"
    /\ mi = Len(missing)
    /\ target_add <= 0 \/ si > Len(surplus)
    /\ rm_df' = RecomputeDiff(rm_df)
    /\ pc' = "done"
    /\ UNCHANGED <<stage, order, rm_in, missing, surplus, surplus_diff, mi, si, target_add,
                   last_take, topupVars, shareVars, distVars, rasterVars>>

NextRealloc == Zeroing \/ Transfer \/ SkipDonor \/ NextMissing \/ FinishRegion

SpecRealloc == InitRealloc /\ [][NextRealloc]_vars

(***************************************************************************)
(* Cascading donor top-up: label_area_deltas.main, one region.             *)
(***************************************************************************)
\* Lines 47-53: a row of the RM x Label table before the top-up.
DeltaRow(aci, masc) ==
    [aci_acres |-> aci, masc_acres |-> masc, aci_acres_before |-> aci,
     taken_from_other |-> 0, taken_from_pasture |-> 0, taken_from_canola |-> 0]

\* get_surplus (lines 65-69).
get_surplus(s, label) ==
    IF label \notin DOMAIN s THEN 0
    ELSE Max(0, s[label].aci_acres - s[label].masc_acres)

\* take without the cap of lines 76-77 at the donor's surplus.
give_uncapped(s, label, amount) ==
    IF label \notin DOMAIN s \/ amount <= 0 THEN 0 ELSE amount

\* take (lines 71-80) with the cap of line 76 at the donor's acres.
give_all_acres(s, label, amount) ==
    IF label \notin DOMAIN s \/ amount <= 0 THEN 0
    ELSE Min(amount, Max(0, s[label].aci_acres))

\* take (lines 71-80) giving one acre at most.
give_one(s, label, amount) ==
    IF label \notin DOMAIN s \/ amount <= 0 THEN 0
    ELSE Min(1, Min(amount, Max(0, s[label].aci_acres - s[label].masc_acres)))

\* take (lines 71-80): the amount it returns ...
give_of(s, label, amount) ==
    IF label \notin DOMAIN s \/ amount <= 0 THEN 0
    ELSE Min(amount, Max(0, s[label].aci_acres - s[label].masc_acres))

\* take without lines 78-79: the donor keeps what it gives.
after_no_take(s, label, give) == s

\* ... and the table it leaves (lines 78-79).
after_take(s, label, give) ==
    IF give > 0 THEN [s EXCEPT ![label].aci_acres = @ - give] ELSE s

\* Line 86.
RecipientSet(s) == {l \in DOMAIN s : s[l].masc_acres > s[l].aci_acres}

\* Line 88.
NeedOf(s, l) == s[l].masc_acres - s[l].aci_acres

\* Lines 87-90: the first position from k on whose row still has a need.
RECURSIVE SkipBalanced(_, _, _)
SkipBalanced(s, rs, k) ==
    IF k > Len(rs) THEN k
    ELSE IF NeedOf(s, rs[k]) <= 0 THEN SkipBalanced(s, rs, k + 1)
    ELSE k

\* One donor's part of an iteration (lines 93-98, 101-107, 110-118): the
\* table after taking from `donor` for recipient i and crediting `column`.
Credit(s, i, donor, column, amount) ==
    LET give == give_of(s, donor, amount)
        t == after_take(s, donor, give)
    IN IF give > 0
       THEN [t EXCEPT ![i].aci_acres = @ + give, ![i][column] = @ + give]
       ELSE t

\* Lines 93, 102 and 111 with the donors in the opposite order.
donor_priority_reversed == <<"Canola/rapeseed", "Pasture/forages", "Other crops">>

\* Lines 93, 102 and 111: the donor of each of the three takes.
donor_priority == <<"Other crops", "Pasture/forages", "Canola/rapeseed">>

TopupStages == {"topup", "share"}

InitTopup ==
    /\ stage = "topup"
    /\ pc = "start"
    /\ \E S \in SUBSET Labels :
          /\ S # {}
          /\ order = Restrict(LabelOrder, S)
          /\ sub_in \in [S -> {DeltaRow(a, m) : a \in 0..MaxAci, m \in 0..MaxMasc}]
    /\ sub = sub_in
    /\ recipients_idx = <<>>
    /\ ri = 0
    /\ need = 0
    /\ last_give = 0
    /\ IdleRealloc /\ IdleShare /\ IdleDist /\ IdleRaster

\* Lines 86-90: recipients_idx and the entry into the loop.
TopupStart ==
    /\ stage \in TopupStages /\ pc = "start"
    /\ LET rs == Restrict(order, RecipientSet(sub))
           k == SkipBalanced(sub, rs, 1)
       IN /\ recipients_idx' = rs
          /\ ri' = k
          /\ IF k <= Len(rs)
             THEN need' = NeedOf(sub, rs[k]) /\ pc' = "other"
             ELSE need' = need /\ pc' = "done"
    /\ UNCHANGED <<stage, order, sub, sub_in, last_give, reallocVars, shareVars, distVars,
                   rasterVars>>

\* Lines 92-98.
TakeOther ==
    /\ stage \in TopupStages /\ pc = "other"
    /\ LET i == recipients_idx[ri]
           give_other == give_of(sub, donor_priority[1], need)
       IN /\ sub' = Credit(sub, i, donor_priority[1], "taken_from_other", need)
          /\ need' = need - give_other
          /\ last_give' = give_other
    /\ pc' = "pasture"
    /\ UNCHANGED <<stage, order, sub_in, recipients_idx, ri, reallocVars, shareVars, distVars,
                   rasterVars>>

\* Lines 100-107.
TakePasture ==
    /\ stage \in TopupStages /\ pc = "pasture"
    /\ LET i == recipients_idx[ri]
           give_past == IF need > 0 THEN give_of(sub, donor_priority[2], need) ELSE 0
       IN /\ sub' = IF need > 0
                    THEN Credit(sub, i, donor_priority[2], "taken_from_pasture", need)
                    ELSE sub
          /\ need' = need - give_past
          /\ last_give' = give_past
    /\ pc' = "canola"
    /\ UNCHANGED <<stage, order, sub_in, recipients_idx, ri, reallocVars, shareVars, distVars,
                   rasterVars>>

\* Lines 109-118, and the step of the loop to its next row (lines 87-90).
TakeCanola ==
    /\ stage \in TopupStages /\ pc = "canola"
    /\ LET i == recipients_idx[ri]
           give_can == IF need > 0 THEN give_of(sub, donor_priority[3], need) ELSE 0
           t == IF need > 0
                THEN Credit(sub, i, donor_priority[3], "taken_from_canola", need)
                ELSE sub
           k == SkipBalanced(t, recipients_idx, ri + 1)
       IN /\ sub' = t
          /\ last_give' = give_can
          /\ ri' = k
          /\ IF k <= Len(recipients_idx)
             THEN need' = NeedOf(t, recipients_idx[k]) /\ pc' = "other"
             ELSE need' = need - give_can /\ pc' = "done"
    /\ UNCHANGED <<stage, order, sub_in, recipients_idx, reallocVars, shareVars, distVars,
                   rasterVars>>

NextTopup == TopupStart \/ TakeOther \/ TakePasture \/ TakeCanola

SpecTopup == InitTopup /\ [][NextTopup]_vars

(***************************************************************************)
(* Shares of the sub-regions: aci_muni_proportion.main computes each       *)
(* MUNI x Label row's share of its RM x Label pixel total,                 *)
(* label_area_deltas.main tops the RM x Label acreages up, and             *)
(* aci_biomass_per_pixel.main / aci_yield_per_pixel.main hand the topped-up*)
(* acreage back to the rows by their shares.  One region, its rows keyed   *)
(* by <<municipality, label>>.  A row's acres is carried in units of the   *)
(* acreage of one pixel, in which it equals the row's pixel_count          *)
(* (aci_prepare.py:79-80; the Distributor scales both by one factor).      *)
(* A fraction is a record [n, d] with d > 0.                               *)
(***************************************************************************)
\* Areas are counted in 1e-9 ha.
NanoHaPerHa == 10^9
\* 0.09 ha, the area of one 30 m pixel (aci_reallocate_pixels.py:167).
PixelNanoHa == 90000000
\* aci_prepare.py:79-80: hectares = px * a / 10000, acres = px * a / 4046.85642,
\* hence hectares = acres * 0.404685642.
PrepareAcreNanoHa == 404685642
\* aci_reallocate_pixels.py:166.
DistributorAcreNanoHa == 404685642

Munis == {"M1", "M2"}
ShareOrder == <<"Other crops", "Wheat">>
ShareLabels == SeqRange(ShareOrder)

Frac(n, d) == [n |-> n, d |-> d]

RowsOf(rows, l) == {k \in DOMAIN rows : k[2] = l}

\* groupby(["rm", "Label"])[column].sum() for the label l.
GroupSum(rows, l, column) ==
    SumOver([k \in RowsOf(rows, l) |-> rows[k][column]], RowsOf(rows, l))

\* aci_muni_proportion lines 46-48.
rm_label_pct(pixel_count, total) ==
    IF total > 0 THEN Frac(pixel_count, total) ELSE Frac(0, 1)

\* aci_muni_proportion lines 42-48, on every row.
WithPct(rows) ==
    [k \in DOMAIN rows |->
        LET total == GroupSum(rows, k[2], "pixel_count")
        IN [rows[k] EXCEPT !.rm_label_pixels_total = total,
                           !.rm_label_pct = rm_label_pct(rows[k].pixel_count, total)]]

\* label_area_deltas lines 44-53: the outer merge of aci_group and masc_group.
DeltaLabels(rows, masc) == {k[2] : k \in DOMAIN rows} \cup DOMAIN masc

DeltaTable(rows, masc) ==
    [l \in DeltaLabels(rows, masc) |->
        DeltaRow(IF RowsOf(rows, l) # {} THEN GroupSum(rows, l, "acres") ELSE 0,
                 IF l \in DOMAIN masc THEN masc[l] ELSE 0)]

\* aci_biomass_per_pixel line 50 (aci_yield_per_pixel line 45).
DistributedAcres(aci_acres, pct) == Frac(aci_acres * pct.n, pct.d)

\* aci_biomass_per_pixel.py:51 and aci_yield_per_pixel.py:48, in 1e-9 ha.
BiomassAcreNanoHa == 404686000
YieldAcreNanoHa == 404686000

\* aci_biomass_per_pixel line 51 (aci_yield_per_pixel line 48): the hectares
\* of an acreage that is a fraction, as the quantity
\* (nanoHaPerAcre / 10^9) * acres.
HectaresOfShare(acres, nanoHaPerAcre) ==
    [v |-> nanoHaPerAcre, d |-> NanoHaPerHa, s |-> acres]

\* aci_biomass_per_pixel line 52 (aci_yield_per_pixel line 49).
PixelsOfShare(h) == [v |-> h.v, d |-> PixelNanoHa, s |-> h.s]

\* aci_yield_per_pixel lines 45-49 for one row.
YieldColumns(aci_acres, pct) ==
    LET a == DistributedAcres(aci_acres, pct)
    IN [aci_acres |-> a,
        aci_hectares |-> HectaresOfShare(a, YieldAcreNanoHa),
        aci_pixels |-> PixelsOfShare(HectaresOfShare(a, YieldAcreNanoHa))]

NoColumns == <<>>

MuniRow(p) ==
    [pixel_count |-> p, acres |-> p, rm_label_pixels_total |-> 0,
     rm_label_pct |-> Frac(0, 1), aci_acres |-> Frac(0, 1),
     aci_hectares |-> NoColumns, aci_pixels |-> NoColumns, yield |-> NoColumns]

InitShare ==
    /\ stage = "share"
    /\ pc = "pct"
    /\ \E K \in SUBSET (Munis \X ShareLabels) :
          muni_rows \in [K -> {MuniRow(p) : p \in 0..MaxPix}]
    /\ \E S \in SUBSET ShareLabels : masc_group \in [S -> 0..MaxMasc]
    /\ DeltaLabels(muni_rows, masc_group) # {}
    /\ order = <<>>
    /\ IdleRealloc /\ IdleTopup /\ IdleDist /\ IdleRaster

\* aci_muni_proportion.main.
Proportion ==
    /\ stage = "share" /\ pc = "pct"
    /\ muni_rows' = WithPct(muni_rows)
    /\ pc' = "deltas"
    /\ UNCHANGED <<stage, order, masc_group, reallocVars, topupVars, distVars,
                   rasterVars>>

\* label_area_deltas.main, lines 44-57: the table the top-up works on.
GroupDeltas ==
    /\ stage = "share" /\ pc = "deltas"
    /\ sub_in' = DeltaTable(muni_rows, masc_group)
    /\ sub' = sub_in'
    /\ order' = Restrict(ShareOrder, DeltaLabels(muni_rows, masc_group))
    /\ pc' = "start"
    /\ UNCHANGED <<stage, recipients_idx, ri, need, last_give, reallocVars, shareVars, distVars,
                   rasterVars>>

\* aci_biomass_per_pixel.main, lines 46-50.
DistributeShares ==
    /\ stage = "share" /\ pc = "done"
    /\ muni_rows' = [k \in DOMAIN muni_rows |->
                        LET a == DistributedAcres(sub[k[2]].aci_acres,
                                                  muni_rows[k].rm_label_pct)
                        IN [muni_rows[k] EXCEPT
                               !.aci_acres = a,
                               !.aci_hectares = HectaresOfShare(a, BiomassAcreNanoHa),
                               !.aci_pixels =
                                   PixelsOfShare(HectaresOfShare(a, BiomassAcreNanoHa))]]
    /\ pc' = "distributed"
    /\ UNCHANGED <<stage, order, masc_group, reallocVars, topupVars, distVars,
                   rasterVars>>

\* aci_yield_per_pixel.main, lines 39-49, on the same two tables.
YieldShares ==
    /\ stage = "share" /\ pc = "distributed"
    /\ muni_rows' = [k \in DOMAIN muni_rows |->
                        [muni_rows[k] EXCEPT
                            !.yield = YieldColumns(sub[k[2]].aci_acres,
                                                   muni_rows[k].rm_label_pct)]]
    /\ pc' = "yield"
    /\ UNCHANGED <<stage, order, masc_group, reallocVars, topupVars, distVars,
                   rasterVars>>

NextShare == Proportion \/ GroupDeltas \/ NextTopup \/ DistributeShares \/ YieldShares

SpecShare == InitShare /\ [][NextShare]_vars

(***************************************************************************)
(* Sub-Region Distributor: distribute_back_to_municipalities, on the rows  *)
(* of the municipalities of one region (and of a municipality the RM       *)
(* lookup does not know, whose rm is null).                                *)
(*                                                                         *)
(* A quantity is a record [v, d, s]: the number (v / d) * (s.n / s.d).     *)
(* acres has d = 1, hectares is counted in 1e-9 ha (d = 10^9) and          *)
(* pixel_count, hectares / 0.09, in 1e-9 ha over 9 * 10^7.  s is the       *)
(* factor the row has been multiplied by, kept apart so that the products  *)
(* stay exact and small.                                                   *)
(***************************************************************************)

NullNum == 0 - 1
NullRm == "nan"

One == Frac(1, 1)
Qty(v, d) == [v |-> v, d |-> d, s |-> One]
Times(q, f) == [q EXCEPT !.s = Frac(q.s.n * f.n, q.s.d * f.d)]
QtyIsZero(q) == q.v = 0 \/ q.s.n = 0
QtyNonNeg(q) == QtyIsZero(q) \/ ((q.v > 0) = (q.s.n > 0))
\* Two quantities of one unit are the same number.
QtySame(q, r) ==
    \/ QtyIsZero(q) /\ QtyIsZero(r)
    \/ /\ q.d = r.d /\ q.v = r.v
       /\ q.s.n * r.s.d = r.s.n * q.s.d
    \/ /\ q.d = r.d /\ q.s = r.s /\ q.v = r.v

AcresQty(a) == Qty(a, 1)
HectaresOfAcres(a, nanoHaPerAcre) == Qty(a * nanoHaPerAcre, NanoHaPerHa)
PixelsOfHectares(h) == [v |-> h.v, d |-> PixelNanoHa, s |-> h.s]

DistMunis == {"M1", "M2"}
DistOrder == <<"Oats", "Wheat">>
DistLabels == SeqRange(DistOrder)

\* The Code column of the crop classification table (aci_prepare.py:83-84).
CodeOf(label) == IF label = "Oats" THEN 136 ELSE 140
NoCode == 0 - 1

\* A row of aci_summary_{year}.csv with the rm of preprocess_data line 30.
SummaryRow(muni, label, a, rm) ==
    [MUNI_NAME |-> muni, Code |-> CodeOf(label), Label |-> label, rm |-> rm,
     acres |-> AcresQty(a),
     hectares |-> HectaresOfAcres(a, PrepareAcreNanoHa),
     pixel_count |-> PixelsOfHectares(HectaresOfAcres(a, PrepareAcreNanoHa)),
     acres_orig |-> NullNum, acres_aci |-> NullNum, scale_factor |-> One,
     synthesized |-> FALSE]

\* Lines 111-131: the row added for a pair of reallocated_df the table lacks.
NewRow(df, rm, label) ==
    LET template == SelectSeq(df, LAMBDA r : r.rm = rm)
    IN [MUNI_NAME |-> IF template # <<>> THEN template[1].MUNI_NAME ELSE rm,
        Code |-> IF template # <<>> THEN template[1].Code ELSE NoCode,
        Label |-> label, rm |-> rm,
        acres |-> AcresQty(0), hectares |-> Qty(0, NanoHaPerHa),
        pixel_count |-> Qty(0, PixelNanoHa),
        acres_orig |-> NullNum, acres_aci |-> NullNum, scale_factor |-> One,
        synthesized |-> TRUE]

\* Lines 102-134: the rows for the pairs of `labels` (in their order) that
\* the table lacks, appended to it.
RECURSIVE WithNewRows(_, _, _, _)
WithNewRows(df, orig, rm, labels) ==
    IF labels = <<>> THEN df
    ELSE LET l == Head(labels)
             have == \E i \in 1..Len(orig) : orig[i].rm = rm /\ orig[i].Label = l
         IN WithNewRows(IF have THEN df ELSE Append(df, NewRow(orig, rm, l)),
                        orig, rm, Tail(labels))

\* Lines 137-141: acres_orig of the pair (rm, label); rows of a null rm
\* form no group.
OrigTotal(df, rm, label) ==
    LET I == {i \in 1..Len(df) : df[i].rm = rm /\ df[i].Label = label}
    IN IF rm = NullRm \/ I = {} THEN NullNum
       ELSE SumOver([i \in I |-> df[i].acres.v], I)

\* Lines 151-156 with the factor of line 155 for every pair.
ScaleFactorZero(acres_orig, acres_aci) == Frac(0, 1)

\* Lines 151-156.
ScaleFactor(acres_orig, acres_aci) ==
    IF acres_orig > 0 /\ acres_aci # NullNum THEN Frac(acres_aci, acres_orig)
    ELSE IF acres_aci = NullNum THEN One
    ELSE Frac(0, 1)

\* Lines 159-161.
Rescaled(r, f) ==
    [r EXCEPT !.scale_factor = f,
              !.pixel_count = Times(@, f),
              !.hectares = Times(@, f),
              !.acres = Times(@, f)]

\* Lines 164-167.
FilledNew(r) ==
    IF r.acres_orig = 0 /\ r.acres_aci > 0
    THEN [r EXCEPT !.acres = AcresQty(r.acres_aci),
                   !.hectares = HectaresOfAcres(r.acres_aci, DistributorAcreNanoHa),
                   !.pixel_count =
                        PixelsOfHectares(HectaresOfAcres(r.acres_aci, DistributorAcreNanoHa))]
    ELSE r

\* Lines 136-172 for one row of the table df.
DistributedRow(df, new_totals, r) ==
    LET o == OrigTotal(df, r.rm, r.Label)
        a == IF r.rm # NullRm /\ r.Label \in DOMAIN new_totals
             THEN new_totals[r.Label] ELSE NullNum
        m == [r EXCEPT !.acres_orig = o, !.acres_aci = a]
    IN FilledNew(Rescaled(m, ScaleFactor(o, a)))

\* distribute_back_to_municipalities.
distribute_back(df, rm, new_totals) ==
    LET full == WithNewRows(df, df, rm, Restrict(DistOrder, DOMAIN new_totals))
    IN [i \in 1..Len(full) |-> DistributedRow(full, new_totals, full[i])]

DistKeys == DistMunis \X DistLabels
KeySeqs == {ks \in UNION {[1..n -> DistKeys] : n \in 0..MaxRows} :
               \A i, j \in DOMAIN ks : i # j => ks[i] # ks[j]}

InitDist ==
    /\ stage = "dist"
    /\ pc = "report"
    /\ \E ks \in KeySeqs, as \in [DistKeys -> 0..MaxRowAcres], rm2 \in {"R1", NullRm} :
          aci_df = [i \in DOMAIN ks |->
                      SummaryRow(ks[i][1], ks[i][2], as[ks[i]],
                                 IF ks[i][1] = "M2" THEN rm2 ELSE "R1")]
    /\ \E S \in SUBSET DistLabels :
          /\ \A i \in DOMAIN aci_df : aci_df[i].rm = "R1" => aci_df[i].Label \in S
          /\ reallocated_df \in [S -> 0..MaxNew]
    /\ final = <<>>
    /\ order = <<>>
    /\ IdleRealloc /\ IdleTopup /\ IdleShare /\ IdleRaster

\* main, line 231: summarize_changes(merged_df, reallocated_df, year) is called
\* before the Distributor.  It reads the two tables and writes two report
\* files; it returns, and main goes on to line 234.
SummarizeChanges ==
    /\ stage = "dist" /\ pc = "report"
    /\ pc' = "start"
    /\ UNCHANGED <<stage, order, distVars, reallocVars, topupVars, shareVars, rasterVars>>

\* The same call when mkdir or to_csv (lines 201-204) raises: the call at
\* line 231 is not inside a try, so the exception leaves main, and lines
\* 234-237 are not executed.
SummarizeChangesRaises ==
    /\ stage = "dist" /\ pc = "report"
    /\ pc' = "aborted"
    /\ UNCHANGED <<stage, order, distVars, reallocVars, topupVars, shareVars, rasterVars>>

Distribute ==
    /\ stage = "dist" /\ pc = "start"
    /\ final' = distribute_back(aci_df, "R1", reallocated_df)
    /\ pc' = "done"
    /\ UNCHANGED <<stage, order, aci_df, reallocated_df, reallocVars, topupVars, shareVars,
                   rasterVars>>

NextDist == SummarizeChanges \/ SummarizeChangesRaises \/ Distribute

SpecDist == InitDist /\ [][NextDist]_vars

(***************************************************************************)
(* Pixel Materializer: raster_build.process_by_municipality and            *)
(* assign_within_muni.  The raster is a row of NCells cells; a             *)
(* municipality's geometry is a set of cells (empty: it lies outside the   *)
(* raster) and its window is the bounding interval of that set, as         *)
(* geometry_window gives the bounding box of a geometry.                   *)
(***************************************************************************)
Cells == 1..NCells

\* raster_build.py:116.
protected_codes == {10, 20, 30, 34, 35, 50, 60, 80, 85, 110, 130, 200, 210, 220, 230}

\* The codes the cells of the source raster are drawn from: no data, a
\* protected class, a class that is no target, and the two target classes.
SrcCodes == {0, 50, 120, CodeOf("Oats"), CodeOf("Wheat")}

\* raster_build.py:233, 241 and 151: the value of an unset cell.
Unset == 0 - 9999

\* load_data line 43 and label_to_code.get (lines 55, 68).
label_to_code(lbl) == IF lbl \in DistLabels THEN CodeOf(lbl) ELSE NoCode

TargetRow(lbl, pixels, value) ==
    [Label |-> lbl, aci_pixels |-> pixels, gt_aci_biomass_tonnes_per_pixel |-> value]

\* geometry_window (line 135).
WindowOf(g) ==
    {c \in Cells : (\E a \in g : a <= c) /\ (\E b \in g : c <= b)}

\* Rule 1 (lines 53-63): band2 and assigned_mask after it.
Rule1Rows(b1, rows) ==
    {i \in 1..Len(rows) :
        /\ label_to_code(rows[i].Label) # NoCode
        /\ \E c \in DOMAIN b1 : b1[c] = label_to_code(rows[i].Label)}

Rule1Band2(b1, b2, rows) ==
    [c \in DOMAIN b2 |->
        IF \E i \in Rule1Rows(b1, rows) : b1[c] = label_to_code(rows[i].Label)
        THEN LET i == CHOOSE j \in Rule1Rows(b1, rows) : b1[c] = label_to_code(rows[j].Label)
             IN rows[i].gt_aci_biomass_tonnes_per_pixel
        ELSE b2[c]]

\* Line 63 left out: Rule 1 marks no pixel as assigned.
Rule1AssignedNone(b1, rows) == {}

Rule1Assigned(b1, rows) ==
    {c \in DOMAIN b1 : \E i \in Rule1Rows(b1, rows) : b1[c] = label_to_code(rows[i].Label)}

\* Lines 77-79.
Current(b1, code) == Cardinality({c \in DOMAIN b1 : b1[c] = code})
Deficit(b1, row) == row.aci_pixels - Current(b1, label_to_code(row.Label))

\* Lines 83-87 without the test of the protected codes.
CandidatesUnprotected(b1, assigned, valid_mask) ==
    {c \in DOMAIN b1 : c \notin assigned /\ c \in valid_mask}

\* Lines 83-87 without the geometry mask (valid_mask = None).
CandidatesUnmasked(b1, assigned, valid_mask) ==
    {c \in DOMAIN b1 : c \notin assigned /\ b1[c] \notin protected_codes}

\* Lines 83-87.
Candidates(b1, assigned, valid_mask) ==
    {c \in DOMAIN b1 : c \notin assigned /\ b1[c] \notin protected_codes /\ c \in valid_mask}

\* Lines 67-89: the row is passed over.
RowSkipped(b1, assigned, valid_mask, row) ==
    \/ label_to_code(row.Label) = NoCode
    \/ row.aci_pixels <= 0
    \/ Deficit(b1, row) <= 0
    \/ Candidates(b1, assigned, valid_mask) = {}

\* Line 91 with one pixel drawn at most.
FillSizeOne(deficit, candidates) == Min(1, Cardinality(candidates))

\* Line 91 with every candidate drawn.
FillSizeAllCandidates(deficit, candidates) == Cardinality(candidates)

\* Line 91.
FillSize(deficit, candidates) == Min(deficit, Cardinality(candidates))

\* Lines 98-107 with the deficit of line 79 logged in place of the number
\* of pixels drawn.
LogEntryUnclipped(muni_name, row, current, newly) ==
    [MUNI_NAME |-> muni_name, Label |-> row.Label, Code |-> label_to_code(row.Label),
     required_pixels |-> row.aci_pixels, existing_pixels |-> current,
     newly_assigned |-> row.aci_pixels - current, total_assigned |-> row.aci_pixels,
     biomass_value |-> row.gt_aci_biomass_tonnes_per_pixel]

\* Lines 98-107.
LogEntry(muni_name, row, current, newly) ==
    [MUNI_NAME |-> muni_name, Label |-> row.Label, Code |-> label_to_code(row.Label),
     required_pixels |-> row.aci_pixels, existing_pixels |-> current,
     newly_assigned |-> newly, total_assigned |-> current + newly,
     biomass_value |-> row.gt_aci_biomass_tonnes_per_pixel]

\* Line 109 left out.
NotCleaned(b2) == b2

\* Line 109.
Cleaned(b2) == [c \in DOMAIN b2 |-> IF b2[c] < 0 /\ b2[c] # Unset THEN 0 ELSE b2[c]]

\* Lines 157-158: a window written into an output band.
Written(dst, chunk) == [c \in Cells |-> IF c \in DOMAIN chunk THEN chunk[c] ELSE dst[c]]

MuniNames == <<"M1", "M2">>

\* The pixel requirements of the first target row: none, one pixel, and as
\* many as the raster has cells beside the one the second row asks for.
Required == {0, 1, NCells - 1}

\* The target rows of the two municipalities; "Rye" has no code in the
\* reference table.
M1Rows == {<<TargetRow("Wheat", a, 2), TargetRow("Oats", 1, 0 - 1)>> : a \in Required}
M2Rows == {<<>>, <<TargetRow("Rye", 1, 7)>>, <<TargetRow("Wheat", 1, 5)>>}

InitRaster ==
    /\ stage = "raster"
    /\ pc = "next"
    /\ src \in [Cells -> SrcCodes]
    /\ \E r1 \in M1Rows, r2 \in M2Rows : targets = <<r1, r2>>
    \* A municipality without target rows is passed over before its geometry
    \* is read (lines 129-131); it is given the empty geometry.
    /\ \E g1, g2 \in SUBSET Cells :
          /\ g1 # {} \/ g2 # {}
          /\ g1 \cap g2 = {}
          /\ targets[2] = <<>> => g2 = {}
          /\ geoms = <<g1, g2>>
    /\ dst_codes = [c \in Cells |-> 0]
    /\ dst_biomass = [c \in Cells |-> Unset]
    /\ logs = <<>>
    /\ mu = 1
    /\ band1 = <<>> /\ band2 = <<>>
    /\ assigned_mask = {}
    /\ assigned_log = <<>>
    /\ row_i = 0
    /\ write_count = [c \in Cells |-> 0]
    /\ changed_by = [c \in Cells |-> {}]
    /\ order = <<>>
    /\ IdleRealloc /\ IdleTopup /\ IdleShare /\ IdleDist

rasterFrame == <<stage, order, src, geoms, targets, reallocVars, topupVars, shareVars, distVars>>

\* Lines 129-131: no target row for the municipality.
SkipNoRows ==
    /\ stage = "raster" /\ pc = "next" /\ mu <= Len(geoms)
    /\ targets[mu] = <<>>
    /\ mu' = mu + 1
    /\ UNCHANGED <<pc, dst_codes, dst_biomass, logs, band1, band2, assigned_mask,
                   assigned_log, row_i, write_count, changed_by, rasterFrame>>

\* Lines 133-137: geometry_window raises.
SkipNoWindow ==
    /\ stage = "raster" /\ pc = "next" /\ mu <= Len(geoms)
    /\ targets[mu] # <<>>
    /\ geoms[mu] = {}
    /\ mu' = mu + 1
    /\ UNCHANGED <<pc, dst_codes, dst_biomass, logs, band1, band2, assigned_mask,
                   assigned_log, row_i, write_count, changed_by, rasterFrame>>

\* Line 140 with the test left out.
NoChunkEmpty(g) == FALSE

\* Lines 139-140: the chunk read at the window of the geometry g has no
\* cell, or only cells of code 0.
ChunkEmpty(g) == \A c \in WindowOf(g) : src[c] = 0

\* Lines 139-142: the window holds no classified pixel.
SkipEmptyChunk ==
    /\ stage = "raster" /\ pc = "next" /\ mu <= Len(geoms)
    /\ targets[mu] # <<>>
    /\ geoms[mu] # {}
    /\ ChunkEmpty(geoms[mu])
    /\ mu' = mu + 1
    /\ UNCHANGED <<pc, dst_codes, dst_biomass, logs, band1, band2, assigned_mask,
                   assigned_log, row_i, write_count, changed_by, rasterFrame>>

\* Lines 139-151 and 49-51: the chunks of the window and the empty masks.
ReadWindow ==
    /\ stage = "raster" /\ pc = "next" /\ mu <= Len(geoms)
    /\ targets[mu] # <<>>
    /\ geoms[mu] # {}
    /\ ~ChunkEmpty(geoms[mu])
    /\ band1' = [c \in WindowOf(geoms[mu]) |-> src[c]]
    /\ band2' = [c \in WindowOf(geoms[mu]) |-> Unset]
    /\ assigned_mask' = {}
    /\ assigned_log' = <<>>
    /\ pc' = "rule1"
    /\ UNCHANGED <<mu, dst_codes, dst_biomass, logs, row_i, write_count, changed_by,
                   rasterFrame>>

\* Lines 53-63.
Rule1 ==
    /\ stage = "raster" /\ pc = "rule1"
    /\ band2' = Rule1Band2(band1, band2, targets[mu])
    /\ assigned_mask' = Rule1Assigned(band1, targets[mu])
    /\ row_i' = 1
    /\ pc' = "rule2"
    /\ UNCHANGED <<mu, dst_codes, dst_biomass, logs, band1, assigned_log, write_count,
                   changed_by, rasterFrame>>

\* Lines 66-89: a row that assigns nothing.
Rule2Skip ==
    /\ stage = "raster" /\ pc = "rule2" /\ row_i <= Len(targets[mu])
    /\ RowSkipped(band1, assigned_mask, geoms[mu], targets[mu][row_i])
    /\ row_i' = row_i + 1
    /\ UNCHANGED <<pc, mu, dst_codes, dst_biomass, logs, band1, band2, assigned_mask,
                   assigned_log, write_count, changed_by, rasterFrame>>

\* Lines 66-107: a row whose deficit is filled from the candidates; P is
\* the draw of rng.choice.
Rule2Fill ==
    /\ stage = "raster" /\ pc = "rule2" /\ row_i <= Len(targets[mu])
    /\ ~RowSkipped(band1, assigned_mask, geoms[mu], targets[mu][row_i])
    /\ LET row == targets[mu][row_i]
           code == label_to_code(row.Label)
           current == Current(band1, code)
           cand == Candidates(band1, assigned_mask, geoms[mu])
           deficit == FillSize(Deficit(band1, row), cand)
       IN \E P \in SUBSET cand :
             /\ Cardinality(P) = deficit
             /\ band1' = [c \in DOMAIN band1 |-> IF c \in P THEN code ELSE band1[c]]
             /\ band2' = [c \in DOMAIN band2 |->
                            IF c \in P THEN row.gt_aci_biomass_tonnes_per_pixel
                            ELSE band2[c]]
             /\ assigned_mask' = assigned_mask \cup P
             /\ assigned_log' = Append(assigned_log,
                                       LogEntry(MuniNames[mu], row, current, deficit))
    /\ row_i' = row_i + 1
    /\ UNCHANGED <<pc, mu, dst_codes, dst_biomass, logs, write_count, changed_by,
                   rasterFrame>>

\* Lines 109-110 and 157-163: the value chunk is cleaned, both chunks are
\* written at the window and the log is extended.
WriteWindow ==
    /\ stage = "raster" /\ pc = "rule2" /\ row_i > Len(targets[mu])
    /\ band2' = Cleaned(band2)
    /\ dst_codes' = Written(dst_codes, band1)
    /\ dst_biomass' = Written(dst_biomass, band2')
    /\ logs' = logs \o assigned_log
    /\ write_count' = [c \in Cells |->
                          IF c \in DOMAIN band1 THEN write_count[c] + 1 ELSE write_count[c]]
    /\ changed_by' = [c \in Cells |->
                         IF dst_codes'[c] # dst_codes[c] \/ dst_biomass'[c] # dst_biomass[c]
                         THEN changed_by[c] \cup {mu} ELSE changed_by[c]]
    /\ mu' = mu + 1
    /\ pc' = "next"
    /\ UNCHANGED <<band1, assigned_mask, assigned_log, row_i, rasterFrame>>

NextRaster ==
    \/ SkipNoRows \/ SkipNoWindow \/ SkipEmptyChunk \/ ReadWindow
    \/ Rule1 \/ Rule2Skip \/ Rule2Fill \/ WriteWindow

SpecRaster == InitRaster /\ [][NextRaster]_vars

(***************************************************************************)
(* The acreage stages together (Region Reconciler, top-up, shares,         *)
(* Distributor).                                                           *)
(***************************************************************************)
InitAcreage == InitRealloc \/ InitTopup \/ InitShare \/ InitDist
NextAcreage ==
    \/ NextRealloc \/ NextTopup \/ Proportion \/ GroupDeltas \/ DistributeShares
    \/ YieldShares \/ NextDist
SpecAcreage == InitAcreage /\ [][NextAcreage]_vars

(***************************************************************************)
(* Properties of the Region Reconciler.                                    *)
(***************************************************************************)
TotalAci(df) == SumOver([l \in DOMAIN df |-> df[l].acres_aci], DOMAIN df)
TotalMasc(df) == SumOver([l \in DOMAIN df |-> df[l].acres_masc], DOMAIN df)

\* What the donors can give and what the missing categories ask for, once
\* Case 1 has been applied to the rows df.
DonorCapacity(df) ==
    SumOver([l \in SurplusSet(Case1(df)) |-> Case1(df)[l].acres_aci - df[l].acres_masc],
            SurplusSet(Case1(df)))
MissingNeed(df) ==
    SumOver([l \in MissingSet(Case1(df)) |-> df[l].acres_masc], MissingSet(Case1(df)))
\* The deficits of all categories that are short, missing or not.
TotalDeficit(df) ==
    SumOver([l \in DOMAIN df |-> Max(0, df[l].acres_masc - Case1(df)[l].acres_aci)],
            DOMAIN df)
\* The deficit left in the rows df.
UnmetDeficit(df) ==
    SumOver([l \in DOMAIN df |-> Max(0, df[l].acres_masc - df[l].acres_aci)], DOMAIN df)
\* The deficits of the categories that are short without being missing.
PartialDeficit(df) == TotalDeficit(df) - MissingNeed(df)

ReallocDone == stage = "realloc" /\ pc = "done"

\* C1 as stated: after reallocate_acres, in a region whose ground-truth
\* total is positive, the sensed acres sum to the ground-truth acres, unless
\* the donors' capacity is below the deficits, and then the shortfall is the
\* unmet deficit.
C1_Stated ==
    (ReallocDone /\ TotalMasc(rm_in) > 0) =>
        \/ TotalAci(rm_df) = TotalMasc(rm_df)
        \/ /\ DonorCapacity(rm_in) < TotalDeficit(rm_in)
           /\ TotalMasc(rm_df) - TotalAci(rm_df) = UnmetDeficit(rm_df)

\* C1, amended: after reallocate_acres the missing categories hold
\* min(their need, the donors' capacity) between them, and the sensed acres
\* exceed the ground-truth acres by the capacity minus the need of the
\* missing categories minus the deficits of the categories that are short
\* without being missing (which no pass touches).
C1_Conservation ==
    ReallocDone =>
        /\ SumOver([l \in MissingSet(Case1(rm_in)) |-> rm_df[l].acres_aci],
                   MissingSet(Case1(rm_in)))
             = Min(MissingNeed(rm_in), DonorCapacity(rm_in))
        /\ TotalAci(rm_df) - TotalMasc(rm_df)
             = DonorCapacity(rm_in) - MissingNeed(rm_in) - PartialDeficit(rm_in)
        /\ (DonorCapacity(rm_in) < MissingNeed(rm_in) /\ PartialDeficit(rm_in) = 0) =>
              TotalMasc(rm_df) - TotalAci(rm_df) = UnmetDeficit(rm_df)

\* A finished region in which acreage was moved, the donors keep a surplus
\* and the sums differ.
C1_Witness ==
    /\ ReallocDone /\ last_take > 0 /\ TotalMasc(rm_in) > 0
    /\ DonorCapacity(rm_in) > MissingNeed(rm_in)
    /\ TotalAci(rm_df) # TotalMasc(rm_df)

\* C8: the region A (100, 0), B (0, 40), C (80, 60) ends with A = 0,
\* B = 20 and C = 60, B being 20 acres short.
C8_WorkedExample ==
    (ReallocDone /\ order = ExampleOrder) =>
        /\ rm_df["A"].acres_aci = 0
        /\ rm_df["B"].acres_aci = 20
        /\ rm_df["C"].acres_aci = 60
        /\ rm_df["B"].acres_masc - rm_df["B"].acres_aci = 20
        /\ UnmetDeficit(rm_df) = 20

C8_Witness ==
    /\ ReallocDone /\ order = ExampleOrder /\ last_take = 20
    /\ rm_in["A"].acres_aci = 100 /\ rm_in["C"].acres_aci = 80

(***************************************************************************)
(* Properties of the transfers of both passes.                             *)
(***************************************************************************)
\* The donors of reallocate_acres: the rows selected at line 67.
ReallocDonors == SurplusSet(Case1(rm_in))

\* C3: after every transfer of reallocate_acres and of the top-up a donor
\* still has at least its ground-truth acres, and what it has given in all
\* is at most the surplus it started with.
C3_DonorCapping ==
    /\ (stage = "realloc" /\ pc # "start") =>
          \A l \in ReallocDonors :
             /\ rm_df[l].acres_aci >= rm_df[l].acres_masc
             /\ rm_in[l].acres_aci - rm_df[l].acres_aci
                  <= rm_in[l].acres_aci - rm_in[l].acres_masc
    /\ stage \in TopupStages =>
          \A l \in DOMAIN sub :
             sub_in[l].aci_acres >= sub_in[l].masc_acres =>
                /\ sub[l].aci_acres >= sub[l].masc_acres
                /\ sub_in[l].aci_acres - sub[l].aci_acres
                     <= sub_in[l].aci_acres - sub_in[l].masc_acres

\* A transfer has just drained a donor of the top-up to its ground truth.
C3_Witness ==
    /\ stage = "topup" /\ last_give > 0
    /\ \E l \in DOMAIN sub :
          /\ sub_in[l].aci_acres > sub_in[l].masc_acres
          /\ sub[l].aci_acres = sub[l].masc_acres

\* C2: no region row and no sub-region row has a negative acres, hectares
\* or pixel_count after any step of the zeroing, the transfers, the top-up
\* and the rescaling, and no amount moved is negative.
C2_NonNegative ==
    /\ stage = "realloc" =>
          /\ \A l \in DOMAIN rm_df :
                /\ rm_df[l].acres_aci >= 0
                /\ rm_df[l].pixel_count >= 0
                /\ rm_df[l].hectares >= 0
          /\ last_take >= 0
    /\ stage \in TopupStages =>
          /\ \A l \in DOMAIN sub :
                /\ sub[l].aci_acres >= 0
                /\ sub[l].taken_from_other >= 0
                /\ sub[l].taken_from_pasture >= 0
                /\ sub[l].taken_from_canola >= 0
          /\ last_give >= 0
          /\ \A k \in DOMAIN muni_rows : muni_rows[k].aci_acres.n >= 0
    /\ stage = "dist" =>
          \A i \in DOMAIN final :
             /\ QtyNonNeg(final[i].acres)
             /\ QtyNonNeg(final[i].hectares)
             /\ QtyNonNeg(final[i].pixel_count)

\* The top-up has finished after a donor gave all it had.
C2_Witness ==
    /\ stage = "topup" /\ pc = "done" /\ last_give > 0
    /\ \E l \in DOMAIN sub : sub[l].aci_acres = 0 /\ sub_in[l].aci_acres > 0

(***************************************************************************)
(* Properties of the Sub-Region Distributor.                               *)
(***************************************************************************)
DistDone == stage = "dist" /\ pc = "done"

\* The rows of the table df that belong to the pair ("R1", l).
PairRows(df, l) == {i \in DOMAIN df : df[i].rm = "R1" /\ df[i].Label = l}

RECURSIVE ProdOver(_, _)
ProdOver(f, S) ==
    IF S = {} THEN 1
    ELSE LET x == CHOOSE y \in S : TRUE IN f[x] * ProdOver(f, S \ {x})

\* The acres of the rows I of df sum to the whole number total.
AcresSumTo(df, I, total) ==
    LET den == [i \in I |-> df[i].acres.s.d]
        P == ProdOver(den, I)
    IN SumOver([i \in I |-> df[i].acres.v * df[i].acres.s.n * (P \div den[i])], I)
         = total * P

\* C4 as stated: for every pair with a corrected total, the acres of the
\* pair's rows in the table returned sum to the corrected total.
C4_Stated ==
    DistDone =>
        \A l \in DOMAIN reallocated_df :
           AcresSumTo(final, PairRows(final, l), reallocated_df[l])

\* C5: when a pair's corrected total equals the total of its original rows,
\* each of these rows comes back with its pixel_count, hectares and acres.
C5_ScaleIdempotence ==
    DistDone =>
        \A i \in DOMAIN aci_df :
           ( /\ aci_df[i].rm = "R1"
             /\ aci_df[i].Label \in DOMAIN reallocated_df
             /\ OrigTotal(aci_df, "R1", aci_df[i].Label) = reallocated_df[aci_df[i].Label] )
           => /\ final[i].MUNI_NAME = aci_df[i].MUNI_NAME
              /\ final[i].Label = aci_df[i].Label
              /\ QtySame(final[i].acres, aci_df[i].acres)
              /\ QtySame(final[i].hectares, aci_df[i].hectares)
              /\ QtySame(final[i].pixel_count, aci_df[i].pixel_count)

\* A pair of two rows with acreage whose corrected total is its original one.
C5_Witness ==
    /\ DistDone
    /\ \E l \in DOMAIN reallocated_df :
          /\ Cardinality(PairRows(aci_df, l)) = 2
          /\ \A i \in PairRows(aci_df, l) : aci_df[i].acres.v > 0
          /\ OrigTotal(aci_df, "R1", l) = reallocated_df[l]

(***************************************************************************)
(* Properties of the shares.                                               *)
(***************************************************************************)
ShareDone == stage = "share" /\ pc = "distributed"

\* The fractions f[k], k in S, sum to the whole number total.
FracsSumTo(f, S, total) ==
    LET den == [k \in S |-> f[k].d]
        P == ProdOver(den, S)
    IN SumOver([k \in S |-> f[k].n * (P \div den[k])], S) = total * P

\* C9 as stated: for every label of the top-up table, the acreages handed
\* to the region's rows of that label sum to the label's acreage after the
\* top-up, and the shares of a label that has acreage sum to 1.
C9_Stated ==
    ShareDone =>
        \A l \in DOMAIN sub :
           /\ FracsSumTo([k \in RowsOf(muni_rows, l) |-> muni_rows[k].aci_acres],
                         RowsOf(muni_rows, l), sub[l].aci_acres)
           /\ sub[l].aci_acres > 0 =>
                 FracsSumTo([k \in RowsOf(muni_rows, l) |-> muni_rows[k].rm_label_pct],
                            RowsOf(muni_rows, l), 1)

(***************************************************************************)
(* Properties of the Pixel Materializer.                                   *)
(***************************************************************************)
\* assign_within_muni has handled every target row of the municipality mu.
AssignDone == stage = "raster" /\ pc = "rule2" /\ row_i > Len(targets[mu])

\* The target rows of the municipality m whose label has a code.
KnownRows(m) == {i \in 1..Len(targets[m]) : label_to_code(targets[m][i].Label) # NoCode}
TargetCodes(m) == {label_to_code(targets[m][i].Label) : i \in KnownRows(m)}

\* Counts in the source window W of the municipality, before Rule 1.
Existing(W, code) == Cardinality({c \in W : src[c] = code})
\* The pixels of the mask g that Rule 2 may draw when it starts.
Pool(W, g, codes) == {c \in W \cap g : src[c] \notin protected_codes /\ src[c] \notin codes}

RequiredTotal(m) ==
    SumOver([i \in KnownRows(m) |-> targets[m][i].aci_pixels], KnownRows(m))
DeficitTotal(m) ==
    SumOver([i \in KnownRows(m) |->
                Max(0, targets[m][i].aci_pixels
                       - Existing(WindowOf(geoms[m]), label_to_code(targets[m][i].Label)))],
            KnownRows(m))

\* C6 as stated: when the required pixels are in all at most the unassigned
\* plus the matching pixels of the mask, every target category ends with
\* exactly its required number of pixels.
C6_Stated ==
    ( /\ AssignDone
      /\ RequiredTotal(mu)
           <= Cardinality(Pool(WindowOf(geoms[mu]), geoms[mu], TargetCodes(mu)))
              + Cardinality({c \in geoms[mu] : src[c] \in TargetCodes(mu)}) )
    => \A i \in KnownRows(mu) :
          Cardinality({c \in geoms[mu] : band1[c] = label_to_code(targets[mu][i].Label)})
            = targets[mu][i].aci_pixels

\* C6, amended: when the deficits of the target categories are in all at
\* most the pixels of the mask that are neither protected nor of a target
\* category, every target category ends with the larger of its required
\* number and the number of pixels of the window that carried its code.
C6_PixelConservation ==
    ( /\ AssignDone
      /\ DeficitTotal(mu)
           <= Cardinality(Pool(WindowOf(geoms[mu]), geoms[mu], TargetCodes(mu))) )
    => \A i \in KnownRows(mu) :
          Current(band1, label_to_code(targets[mu][i].Label))
            = Max(targets[mu][i].aci_pixels,
                  Existing(WindowOf(geoms[mu]), label_to_code(targets[mu][i].Label)))

\* One category has more pixels than it requires and keeps them, another
\* had its deficit filled.
C6_Witness ==
    /\ AssignDone /\ mu = 1
    /\ DeficitTotal(mu) <= Cardinality(Pool(WindowOf(geoms[mu]), geoms[mu], TargetCodes(mu)))
    /\ \E i, j \in KnownRows(mu) :
          /\ Existing(WindowOf(geoms[mu]), label_to_code(targets[mu][i].Label))
               > targets[mu][i].aci_pixels
          /\ Existing(WindowOf(geoms[mu]), label_to_code(targets[mu][j].Label))
               < targets[mu][j].aci_pixels
          /\ Current(band1, label_to_code(targets[mu][j].Label)) = targets[mu][j].aci_pixels

C10_Stated ==
    stage = "raster" =>
        \A c \in Cells :
           /\ write_count[c] <= 1
           /\ \A m \in changed_by[c] : c \in geoms[m]

(***************************************************************************)
(* Further properties of the Region Reconciler.                            *)
(***************************************************************************)
\* C11 as stated: a region whose ground-truth acres sum to zero is skipped,
\* every row coming back with its acres_aci, pixel_count and hectares.
C11_Stated ==
    (ReallocDone /\ TotalMasc(rm_in) = 0) =>
        \A l \in DOMAIN rm_df :
           /\ rm_df[l].acres_aci = rm_in[l].acres_aci
           /\ rm_df[l].pixel_count = rm_in[l].pixel_count
           /\ rm_df[l].hectares = rm_in[l].hectares

(***************************************************************************)
(* Unit conversions of the stages.                                         *)
(***************************************************************************)
YieldDone == stage = "share" /\ pc = "yield"

\* The hectares and the pixel count the Distributor's fill of new
\* categories (lines 165-167) derives from the acreage `acres`.
FillHectares(acres) == Times(HectaresOfAcres(1, DistributorAcreNanoHa), acres)
FillPixels(acres) == PixelsOfHectares(FillHectares(acres))

\* C12 as stated: from one acreage the Distributor's fill, the yield stage
\* and the biomass stage derive the same hectares and the same pixel count.
C12_Stated ==
    YieldDone =>
        \A k \in DOMAIN muni_rows :
           /\ QtySame(muni_rows[k].aci_hectares, muni_rows[k].yield.aci_hectares)
           /\ QtySame(muni_rows[k].aci_pixels, muni_rows[k].yield.aci_pixels)
           /\ QtySame(FillHectares(muni_rows[k].aci_acres), muni_rows[k].aci_hectares)
           /\ QtySame(FillPixels(muni_rows[k].aci_acres), muni_rows[k].aci_pixels)

\* The call of summarize_changes at line 231 of main has raised.
DiagnosticsFailed == stage = "dist" /\ pc = "aborted"

\* C13 as stated: a failure inside the Diagnostics Recorder never aborts the
\* pipeline; after summarize_changes has raised, the Sub-Region Distributor
\* still runs (it can take its step, or it has written the final table).
C13_Stated == DiagnosticsFailed => (ENABLED Distribute \/ final # <<>>)

(***************************************************************************)
(* Further properties of the Pixel Materializer.                           *)
(***************************************************************************)
\* The municipality m has target rows and is passed over at lines 133-142:
\* its geometry gives no window, or its window holds no classified pixel.
SkippedMuni(m) ==
    targets[m] # <<>> /\ (geoms[m] = {} \/ \A c \in WindowOf(geoms[m]) : src[c] = 0)
\* The municipality m goes through assign_within_muni and is written.
ProcessedMuni(m) ==
    targets[m] # <<>> /\ geoms[m] # {} /\ \E c \in WindowOf(geoms[m]) : src[c] # 0

\* C14: a municipality whose geometry gives no window, or whose window holds
\* no classified pixel, is skipped: it changes no cell of the output grids
\* and adds no log entry; the loop does not stop at it; and each cell has
\* been written once for every processed municipality before the current
\* one whose window holds it, so the municipalities after a skipped one are
\* still processed and a skipped one writes nothing.  The grids and the log
\* change only on the step that leads to the head of the loop, where the
\* property is stated.
C14_SkipUnwindowable ==
    (stage = "raster" /\ pc = "next") =>
        /\ \A m \in 1..Len(geoms) :
              SkippedMuni(m) =>
                 /\ \A c \in Cells : m \notin changed_by[c]
                 /\ \A i \in DOMAIN logs : logs[i].MUNI_NAME # MuniNames[m]
        /\ mu <= Len(geoms) =>
              ENABLED (SkipNoRows \/ SkipNoWindow \/ SkipEmptyChunk \/ ReadWindow)
        /\ LET done == {m \in 1..(mu - 1) : ProcessedMuni(m)}
               window == [m \in done |-> WindowOf(geoms[m])]
           IN \A c \in Cells :
                 write_count[c] = Cardinality({m \in done : c \in window[m]})

\* The first municipality was skipped for having no window, and the second
\* one was processed and written after it.
C14_Witness ==
    /\ stage = "raster" /\ pc = "next" /\ mu > Len(geoms)
    /\ targets[1] # <<>> /\ geoms[1] = {}
    /\ ProcessedMuni(2)
    /\ \E c \in Cells : 2 \in changed_by[c]
    /\ logs # <<>>

\* The log entries of the municipality m for the label l.
EntriesOf(m, l) ==
    {i \in DOMAIN logs : logs[i].MUNI_NAME = MuniNames[m] /\ logs[i].Label = l}

\* C15 as stated: once a processed municipality has been written, the log
\* holds exactly one entry for each of its target rows that has a known code
\* and a positive required pixel count, whatever its deficit and its
\* candidate pool were.
C15_Stated ==
    stage = "raster" =>
        \A m \in 1..(mu - 1) :
           ProcessedMuni(m) =>
              \A i \in KnownRows(m) :
                 targets[m][i].aci_pixels > 0 =>
                    Cardinality(EntriesOf(m, targets[m][i].Label)) = 1

\* The rows that Case 1 selects on input (line 62).
ZeroedLabels == {l \in DOMAIN rm_in : rm_in[l].acres_aci > 0 /\ rm_in[l].acres_masc = 0}

\* C16: from the zeroing pass on, every row that came in with sensed acres
\* and no ground-truth acres has acres_aci, pixel_count and hectares at
\* zero, and it is not in the donor list of the transfer pass.
C16_Zeroing ==
    (stage = "realloc" /\ pc # "start") =>
        \A l \in ZeroedLabels :
           /\ rm_df[l].acres_aci = 0
           /\ rm_df[l].pixel_count = 0
           /\ rm_df[l].hectares = 0
           /\ l \notin SeqRange(surplus)

\* A region with a zeroed row has gone through a transfer pass that moved
\* acres from a donor.
C16_Witness ==
    /\ ReallocDone /\ order = LabelOrder
    /\ ZeroedLabels # {}
    /\ surplus # <<>> /\ last_take > 0

\* A step of the inner loop that moves acres (lines 83-87).
TransferStep ==
    stage = "realloc" /\ pc = "transfer" /\ pc' = "transfer" /\ rm_df' # rm_df

\* C17: the donor list is in descending order of the surplus the donors
\* came in with, and every step that moves acres takes them from the donor
\* at the current rank, while the deficit is not yet filled and every donor
\* ranked before it has nothing left; it moves the smaller of what that
\* donor has left and what the deficit still asks for, and changes no other
\* row.
C17_RankedDrain ==
    [][ TransferStep =>
          LET idx == missing[mi]
              jdx == surplus[si]
              take == Min(surplus_diff[jdx], target_add)
          IN /\ \A i, j \in DOMAIN surplus :
                   i < j => rm_in[surplus[i]].acres_aci - rm_in[surplus[i]].acres_masc
                              >= rm_in[surplus[j]].acres_aci - rm_in[surplus[j]].acres_masc
             /\ target_add > 0
             /\ \A k \in 1..(si - 1) : surplus_diff[surplus[k]] = 0
             /\ take > 0
             /\ rm_df'[jdx].acres_aci = rm_df[jdx].acres_aci - take
             /\ rm_df'[idx].acres_aci = rm_df[idx].acres_aci + take
             /\ surplus_diff'[jdx] = surplus_diff[jdx] - take
             /\ target_add' = target_add - take
             /\ \A l \in DOMAIN rm_df : l \notin {idx, jdx} => rm_df'[l] = rm_df[l]
      ]_vars

\* The second missing row has just been served by the second donor, the
\* first donor having been emptied before, and the donors came in with
\* different surpluses.
C17_Witness ==
    /\ stage = "realloc" /\ pc = "transfer" /\ order = LabelOrder
    /\ mi = 2 /\ si = 3 /\ last_take > 0
    /\ surplus_diff[surplus[1]] = 0
    /\ rm_in[surplus[1]].acres_aci - rm_in[surplus[1]].acres_masc
         > rm_in[surplus[2]].acres_aci - rm_in[surplus[2]].acres_masc
    /\ rm_df[surplus[2]].acres_aci < rm_in[surplus[2]].acres_aci

\* C18 as stated: in the output of reallocate_acres every row has
\* acres_diff = acres_aci - acres_masc, also in a region where a category
\* was zeroed and no transfer took place.
C18_Stated ==
    ReallocDone =>
        \A l \in DOMAIN rm_df : rm_df[l].acres_diff = rm_df[l].acres_aci - rm_df[l].acres_masc

(***************************************************************************)
(* Further properties of the cascading top-up.                             *)
(***************************************************************************)
\* A step of the top-up loop that changes the table (lines 92-118).
TopupGives ==
    stage \in TopupStages /\ pc \in {"other", "pasture", "canola"} /\ sub' # sub

\* The rows whose acreage a step lowers.
Lowered == {l \in DOMAIN sub : sub'[l].aci_acres < sub[l].aci_acres}

\* C19: every step of the top-up that moves acreage takes it from one of
\* Other crops, Pasture/forages and Canola/rapeseed and from no other row;
\* it takes from Pasture/forages only when Other crops has no surplus at
\* that moment, and from Canola/rapeseed only when neither Other crops nor
\* Pasture/forages has any.
C19_DonorPriority ==
    [][ TopupGives =>
          /\ Cardinality(Lowered) = 1
          /\ Lowered \subseteq {"Other crops", "Pasture/forages", "Canola/rapeseed"}
          /\ "Pasture/forages" \in Lowered => get_surplus(sub, "Other crops") = 0
          /\ "Canola/rapeseed" \in Lowered =>
                /\ get_surplus(sub, "Other crops") = 0
                /\ get_surplus(sub, "Pasture/forages") = 0
      ]_vars

\* Canola/rapeseed has just given to a recipient that had first emptied
\* Other crops, Pasture/forages being in the table without a surplus.
C19_Witness ==
    /\ stage = "topup" /\ pc \in {"other", "done"} /\ last_give > 0
    /\ {"Other crops", "Pasture/forages", "Canola/rapeseed"} \subseteq DOMAIN sub
    /\ sub_in["Other crops"].aci_acres > sub_in["Other crops"].masc_acres
    /\ \E l \in DOMAIN sub : sub[l].taken_from_other > 0 /\ sub[l].taken_from_canola > 0

(***************************************************************************)
(* Further properties of the Sub-Region Distributor.                       *)
(***************************************************************************)
\* The pairs of region R1 that come in with an original total of zero (no
\* row, or rows without acres) and a positive corrected total.
NewPairs ==
    {l \in DOMAIN reallocated_df :
        /\ reallocated_df[l] > 0
        /\ \A i \in PairRows(aci_df, l) : aci_df[i].acres.v = 0}

\* The municipality of the first row of region R1 in input order.
FirstMuniOfRegion ==
    LET I == {i \in DOMAIN aci_df : aci_df[i].rm = "R1"}
    IN IF I = {} THEN "R1"
       ELSE aci_df[CHOOSE i \in I : \A j \in I : i <= j].MUNI_NAME

\* C20 as stated: a pair with original total 0 and a positive corrected
\* total comes back with one row, of the first sub-region of the region,
\* that carries the whole corrected total with its hectares and pixel_count
\* derived from it, and every other row of the pair carries zero.
C20_Stated ==
    DistDone =>
        \A l \in NewPairs :
           \E i \in PairRows(final, l) :
              /\ final[i].MUNI_NAME = FirstMuniOfRegion
              /\ QtySame(final[i].acres, AcresQty(reallocated_df[l]))
              /\ QtySame(final[i].hectares,
                         HectaresOfAcres(reallocated_df[l], DistributorAcreNanoHa))
              /\ QtySame(final[i].pixel_count,
                         PixelsOfHectares(HectaresOfAcres(reallocated_df[l],
                                                          DistributorAcreNanoHa)))
              /\ \A j \in PairRows(final, l) \ {i} :
                    /\ QtyIsZero(final[j].acres)
                    /\ QtyIsZero(final[j].hectares)
                    /\ QtyIsZero(final[j].pixel_count)

\* A step of Rule 2 that relabels pixels (lines 91-96), and the pixels whose
\* code or value it changes.
FillStep == stage = "raster" /\ pc = "rule2" /\ assigned_log' # assigned_log
Relabelled == {c \in DOMAIN band1 : band1'[c] # band1[c] \/ band2'[c] # band2[c]}

\* C21: every pixel that a deficit fill relabels lies inside the
\* municipality's geometry mask, has a source code that is not protected,
\* was not assigned before in this pass and still carries its source code,
\* so that no pixel is relabelled for two target rows of one pass.
C21_FillInsideMask ==
    [][ FillStep =>
          \A c \in Relabelled :
             /\ c \in geoms[mu]
             /\ src[c] \notin protected_codes
             /\ c \notin assigned_mask
             /\ band1[c] = src[c]
             /\ c \in assigned_mask'
      ]_vars

\* Both target rows of a municipality have had their deficit filled, in a
\* window that holds an unprotected pixel outside the mask.
C21_Witness ==
    /\ stage = "raster" /\ pc = "rule2" /\ Len(assigned_log) = 2
    /\ \E c \in DOMAIN band1 : c \notin geoms[mu] /\ src[c] \notin protected_codes
                               /\ c \notin assigned_mask

\* A step of Rule 2 on a target row (lines 66-107), filled or passed over.
RowStep == stage = "raster" /\ pc = "rule2" /\ row_i' = row_i + 1

\* C22: a target row with a known code, a positive requirement and a
\* positive deficit has exactly min(deficit, number of candidates) pixels
\* relabelled, all of them candidates, each to the row's code and value, and
\* nothing else changes; with fewer candidates than the deficit every
\* candidate is taken, and the loop goes on to the next row.
C22_FillCount ==
    [][ ( /\ RowStep
          /\ label_to_code(targets[mu][row_i].Label) # NoCode
          /\ targets[mu][row_i].aci_pixels > 0
          /\ targets[mu][row_i].aci_pixels
               > Cardinality({c \in DOMAIN band1 :
                                 band1[c] = label_to_code(targets[mu][row_i].Label)}) )
        => LET row == targets[mu][row_i]
               code == label_to_code(row.Label)
               deficit == row.aci_pixels - Cardinality({c \in DOMAIN band1 : band1[c] = code})
               pool == {c \in DOMAIN band1 :
                           /\ c \notin assigned_mask
                           /\ band1[c] \notin protected_codes
                           /\ c \in geoms[mu]}
               drawn == {c \in DOMAIN band1 : band1'[c] # band1[c]}
           IN /\ Cardinality(drawn) = Min(deficit, Cardinality(pool))
              /\ drawn \subseteq pool
              /\ Cardinality(pool) < deficit => drawn = pool
              /\ \A c \in drawn :
                    band1'[c] = code /\ band2'[c] = row.gt_aci_biomass_tonnes_per_pixel
              /\ \A c \in DOMAIN band1 \ drawn : band2'[c] = band2[c]
              /\ assigned_mask' = assigned_mask \cup drawn
      ]_vars

\* The first row was filled with fewer pixels than its deficit, for want of
\* candidates, and the second row has been gone through after it.
C22_Witness ==
    /\ stage = "raster" /\ pc = "rule2" /\ row_i = 3
    /\ Len(assigned_log) = 1
    /\ assigned_log[1].Label = targets[mu][1].Label
    /\ assigned_log[1].newly_assigned
         < assigned_log[1].required_pixels - assigned_log[1].existing_pixels
    /\ targets[mu][2].aci_pixels > 0

\* The window of the municipality before the current one has just been
\* written (lines 157-158).
JustWritten == stage = "raster" /\ pc = "next" /\ mu > 1 /\ ProcessedMuni(mu - 1)

\* Line 109 for one value.
CleanedValue(v) == IF v < 0 /\ v # Unset THEN 0 ELSE v

\* C23 as stated: every pixel of the window whose source code is the code
\* of a target category of the municipality has that code in the output and
\* that category's target value in the value grid.
C23_Stated ==
    JustWritten =>
        \A c \in WindowOf(geoms[mu - 1]) :
           \A i \in KnownRows(mu - 1) :
              src[c] = label_to_code(targets[mu - 1][i].Label) =>
                 /\ dst_codes[c] = src[c]
                 /\ dst_biomass[c] = targets[mu - 1][i].gt_aci_biomass_tonnes_per_pixel

\* C23, amended: every pixel of the window whose source code is the code of
\* a target category of the municipality has that code in the output, and
\* in the value grid that category's target value, or zero when the target
\* value is negative.
C23_Preservation ==
    JustWritten =>
        \A c \in WindowOf(geoms[mu - 1]) :
           \A i \in KnownRows(mu - 1) :
              src[c] = label_to_code(targets[mu - 1][i].Label) =>
                 /\ dst_codes[c] = src[c]
                 /\ dst_biomass[c]
                      = CleanedValue(targets[mu - 1][i].gt_aci_biomass_tonnes_per_pixel)

\* The first municipality has been written after the deficit of its first
\* row was filled, with a pixel of its second row's code kept from the
\* source and a pixel of its first row's code kept as well.
C23_Witness ==
    /\ JustWritten /\ mu = 2
    /\ logs # <<>> /\ logs[1].Label = targets[1][1].Label
    /\ \E c \in WindowOf(geoms[1]) :
          src[c] = label_to_code(targets[1][2].Label) /\ dst_codes[c] = src[c]
    /\ \E c \in WindowOf(geoms[1]) :
          /\ src[c] = label_to_code(targets[1][1].Label)
          /\ dst_biomass[c] = targets[1][1].gt_aci_biomass_tonnes_per_pixel

\* C24 as stated: a pixel whose source code is the no-data code 0 is never
\* given a category code or a value, in the window being worked on and in
\* the output grids.
C24_Stated ==
    stage = "raster" =>
        \A c \in Cells :
           src[c] = 0 =>
              /\ c \in DOMAIN band1 => (band1[c] = 0 /\ band2[c] = Unset)
              /\ dst_codes[c] = 0
              /\ dst_biomass[c] = Unset

\* C25: the value window that assign_within_muni returns holds in every
\* cell the sentinel -9999 or a value that is not negative, it is the window
\* written to the output value grid, and the output value grid holds no
\* negative value but the sentinel at any time.
C25_Clamped ==
    /\ JustWritten =>
          \A c \in WindowOf(geoms[mu - 1]) :
             /\ band2[c] = Unset \/ band2[c] >= 0
             /\ dst_biomass[c] = band2[c]
    /\ stage = "raster" =>
          \A c \in Cells : dst_biomass[c] = Unset \/ dst_biomass[c] >= 0

\* A window has been written in which a pixel was given a negative target
\* value, by Rule 1 or by a deficit fill, and carries zero.
C25_Witness ==
    /\ JustWritten /\ mu = 2
    /\ \E i \in KnownRows(1) :
          /\ targets[1][i].gt_aci_biomass_tonnes_per_pixel < 0
          /\ \E c \in WindowOf(geoms[1]) :
                /\ band1[c] = label_to_code(targets[1][i].Label)
                /\ dst_biomass[c] = 0
    /\ \E j \in DOMAIN logs : logs[j].biomass_value < 0

\* The log entry e is consistent in itself.
EntryConsistent(e) ==
    /\ e.newly_assigned >= 1
    /\ e.total_assigned = e.existing_pixels + e.newly_assigned
    /\ e.total_assigned <= e.required_pixels

\* C30: every entry of the assignment log, of the pass under way and of the
\* passes written, has newly_assigned >= 1, total_assigned = existing_pixels
\* + newly_assigned and total_assigned <= required_pixels; and the entry a
\* deficit fill appends has for newly_assigned the number of pixels whose
\* code that step changed, all of them to the entry's code.
C30_LogConsistent ==
    /\ [](stage = "raster" =>
            /\ \A i \in DOMAIN logs : EntryConsistent(logs[i])
            /\ \A i \in DOMAIN assigned_log : EntryConsistent(assigned_log[i]))
    /\ [][ FillStep =>
             LET e == assigned_log'[Len(assigned_log')]
                 changed == {c \in DOMAIN band1 : band1'[c] # band1[c]}
             IN /\ Len(assigned_log') = Len(assigned_log) + 1
                /\ e.newly_assigned = Cardinality(changed)
                /\ \A c \in changed : band1'[c] = e.Code
                /\ e.existing_pixels
                     = Cardinality({c \in DOMAIN band1 : band1[c] = e.Code})
         ]_vars

\* The log of the written municipalities holds an entry that fell short of
\* its requirement and an entry that met it.
C30_Witness ==
    /\ stage = "raster" /\ pc = "next" /\ logs # <<>>
    /\ \E i \in DOMAIN logs : logs[i].total_assigned < logs[i].required_pixels
    /\ \E i \in DOMAIN logs : logs[i].total_assigned = logs[i].required_pixels

(***************************************************************************)
(* Conservation and balance of the two transfer passes.                    *)
(***************************************************************************)
\* The sensed acres of the region when the transfer pass of reallocate_acres
\* starts: those of the input rows that Case 1 leaves alone.
TransferPassStart ==
    SumOver([l \in DOMAIN rm_in |->
                IF rm_in[l].acres_aci > 0 /\ rm_in[l].acres_masc = 0
                THEN 0 ELSE rm_in[l].acres_aci],
            DOMAIN rm_in)

TopupTotal(s) == SumOver([l \in DOMAIN s |-> s[l].aci_acres], DOMAIN s)

\* C26: at every step of the transfer pass of reallocate_acres the sensed
\* acres of the region sum to what they summed to after the zeroing, and at
\* every step of the cascading top-up they sum to what they summed to when
\* the top-up started.
C26_AcreageMoved ==
    /\ (stage = "realloc" /\ pc # "start") => TotalAci(rm_df) = TransferPassStart
    /\ stage \in TopupStages => TopupTotal(sub) = TopupTotal(sub_in)

\* The top-up of a region is over after a recipient drew on Other crops and
\* on Pasture/forages.
C26_Witness ==
    /\ stage = "topup" /\ pc = "done"
    /\ \E l \in DOMAIN sub : sub[l].taken_from_other > 0 /\ sub[l].taken_from_pasture > 0
    /\ sub # sub_in

\* The loop over the recipients of the region is over (line 120).
TopupOver == stage = "topup" /\ pc = "done"

PriorityDonors == {"Other crops", "Pasture/forages", "Canola/rapeseed"}

\* C27: when the top-up of a region is over and a category still has fewer
\* sensed acres than ground-truth acres, none of Other crops,
\* Pasture/forages and Canola/rapeseed has sensed acres above its
\* ground-truth acres.
C27_DonorsDrained ==
    (TopupOver /\ \E l \in DOMAIN sub : sub[l].aci_acres < sub[l].masc_acres) =>
        \A d \in PriorityDonors \cap DOMAIN sub : sub[d].aci_acres <= sub[d].masc_acres

\* A top-up has ended with a category still short after a donor that came
\* in with a surplus gave all of it.
C27_Witness ==
    /\ TopupOver
    /\ \E l \in DOMAIN sub : sub[l].aci_acres < sub[l].masc_acres /\ sub[l].aci_acres > sub_in[l].aci_acres
    /\ \E d \in PriorityDonors \cap DOMAIN sub :
          sub_in[d].aci_acres > sub_in[d].masc_acres /\ sub[d].aci_acres = sub[d].masc_acres

\* What the row l has received from the three donors (lines 96, 105, 116).
Received(l) ==
    sub[l].taken_from_other + sub[l].taken_from_pasture + sub[l].taken_from_canola

\* C28: at every step of the top-up, a row that has received acreage came
\* in short, has given nothing and is not above its ground truth; a row
\* whose acreage went down came in with a surplus, has received nothing and
\* is not below its ground truth; and a row that came in balanced is
\* unchanged.
C28_NoOvershoot ==
    stage = "topup" =>
        \A l \in DOMAIN sub :
           /\ Received(l) > 0 =>
                 /\ sub_in[l].aci_acres < sub_in[l].masc_acres
                 /\ sub[l].aci_acres = sub_in[l].aci_acres + Received(l)
                 /\ sub[l].aci_acres <= sub[l].masc_acres
           /\ sub[l].aci_acres < sub_in[l].aci_acres =>
                 /\ sub_in[l].aci_acres > sub_in[l].masc_acres
                 /\ Received(l) = 0
                 /\ sub[l].aci_acres >= sub[l].masc_acres
           /\ Received(l) = 0 => sub[l].aci_acres <= sub_in[l].aci_acres
           /\ sub_in[l].aci_acres = sub_in[l].masc_acres => sub[l] = sub_in[l]
           /\ sub[l].masc_acres = sub_in[l].masc_acres

\* A top-up is over in a region with a row that gave, a row that received
\* its whole need and a row that came in balanced with acres.
C28_Witness ==
    /\ TopupOver
    /\ \E l \in DOMAIN sub : sub[l].aci_acres < sub_in[l].aci_acres
    /\ \E l \in DOMAIN sub : Received(l) > 0 /\ sub[l].aci_acres = sub[l].masc_acres
    /\ \E l \in DOMAIN sub : sub_in[l].aci_acres = sub_in[l].masc_acres /\ sub_in[l].aci_acres > 0

\* C29 as stated: every row that distribute_back_to_municipalities returns,
\* the rows synthesized for a category new to the region among them, carries
\* the Code of its own Label.
C29_Stated ==
    DistDone => \A i \in DOMAIN final : final[i].Code = CodeOf(final[i].Label)

Init == InitRealloc \/ InitTopup \/ InitShare \/ InitDist \/ InitRaster
Next ==
    \/ NextRealloc \/ NextTopup \/ Proportion \/ GroupDeltas \/ DistributeShares
    \/ YieldShares \/ NextDist \/ NextRaster
Spec == Init /\ [][Next]_vars
=============================================================================
